---- MODULE Spec2Model ----
(***************************************************************************)
(* Cordova filesystem adapters of ILIAS-Pegasus (AbstractCordovaFilesystem,*)
(* AndroidFilesystem, IOSFilesystem, CORDOVA_FILESYSTEM_FACTORY), and the  *)
(* action that opens an object in ILIAS (OpenObjectInILIASAction).         *)
(*                                                                         *)
(* Strings are sequences of one-character strings.  An optional value is a *)
(* sequence of length 0 (undefined) or 1.  The device filesystem is a      *)
(* function from locations <<directory, name>> to entries.                 *)
(***************************************************************************)
EXTENDS Integers, Sequences, FiniteSets, TLC

VARIABLES
    platform,    \* the names Platform.is answers true for
    file,        \* the File plugin's directory constants
    filesystem,  \* what CORDOVA_FILESYSTEM_FACTORY returned (kind "unset" before)
    fs,          \* the device filesystem: location |-> entry
    last,        \* the most recent call of an adapter operation and its promise
    prevSave,    \* the save that immediately preceded an exists on the same path
    action       \* one execution of OpenObjectInILIASAction: its promise, the
                 \* leave-app dialog and the browsers created

vars == <<platform, file, filesystem, fs, last, prevSave, action>>

----------------------------------------------------------------------------
(* Bounds *)

MaxPathLen == 2
MaxEntries == 1
MaxLinkLen == 2
MaxLeave == 2

----------------------------------------------------------------------------
(* Strings *)

Chars == {"a", "/"}

Str(n) == UNION {[1..k -> Chars] : k \in 0..n}

ExamplePath == <<"a", "/", "b", "/", "c">>

RootDir == <<"/", "r", "o", "o", "t">>

DataDir == <<"/", "d">>

Paths == Str(MaxPathLen) \cup {ExamplePath}

BaseDirs == {RootDir, DataDir}

Bytes == {"d1", "d2"}

\* String.prototype.split("/"): always at least one segment.
RECURSIVE split(_)
split(s) ==
    IF \A i \in 1..Len(s) : s[i] # "/"
    THEN <<s>>
    ELSE LET i == CHOOSE j \in 1..Len(s) :
                      s[j] = "/" /\ \A k \in 1..(j - 1) : s[k] # "/"
         IN  <<SubSeq(s, 1, i - 1)>> \o split(SubSeq(s, i + 1, Len(s)))

\* Array.prototype.join("/")
RECURSIVE join(_)
join(a) ==
    IF Len(a) = 0 THEN <<>>
    ELSE IF Len(a) = 1 THEN a[1]
    ELSE a[1] \o <<"/">> \o join(Tail(a))

\* Array.prototype.pop(): the removed element, undefined on an empty array.
pop(a) == IF Len(a) = 0 THEN <<>> ELSE <<a[Len(a)]>>

popRest(a) == IF Len(a) = 0 THEN <<>> ELSE SubSeq(a, 1, Len(a) - 1)

----------------------------------------------------------------------------
(* Errors *)

NoError == [name |-> "none", status |-> <<>>, code |-> <<>>]

IOError == [name |-> "IOError", status |-> <<>>, code |-> <<>>]

NativeFileError(c) == [name |-> "FileError", status |-> <<>>, code |-> <<c>>]

FileOpenerError(s) == [name |-> "FileOpenerError", status |-> <<s>>, code |-> <<>>]

CantOpenFileTypeException(c) ==
    [name |-> "CantOpenFileTypeException", status |-> <<>>, code |-> c]

FactoryError == [name |-> "Error", status |-> <<>>, code |-> <<>>]

----------------------------------------------------------------------------
(* Path resolution *)

NoPathInfo == [ok |-> FALSE, absoluteBasePath |-> <<>>, target |-> <<>>]

\* the guard of getAbsolutePathInfo: TRUE when it throws IOError
targetNameRejected(targetName) ==
    Len(targetName) # 1 \/ Len(targetName[1]) > 0

getAbsolutePathInfo(base, path) ==
    LET pathFolders == <<base>> \o split(path)
        targetName  == pop(pathFolders)
        rest        == popRest(pathFolders)
    IN  IF targetNameRejected(targetName)
        THEN NoPathInfo
        ELSE [ok |-> TRUE, absoluteBasePath |-> join(rest), target |-> targetName[1]]

----------------------------------------------------------------------------
(* Native file plugin (this.file): outcomes [ok, value, error, fs] *)

FileEntryOf(data) == [kind |-> "file", data |-> data]

DirEntry == [kind |-> "dir", data |-> "none"]

\* what the native layer does when called: an unrelated failure (permission,
\* disk full), and whether "not found" is reported as a rejection or as false
NativeModes ==
    {m \in [fault : BOOLEAN, notFoundRejects : BOOLEAN] : ~(m.fault /\ m.notFoundRejects)}

Full(loc) == loc[1] \o <<"/">> \o loc[2]

IsPrefix(p, s) == Len(p) <= Len(s) /\ SubSeq(s, 1, Len(p)) = p

NativeOk(v, f) == [ok |-> TRUE, value |-> v, error |-> NoError, fs |-> f]

NativeFail(e, f) == [ok |-> FALSE, value |-> <<>>, error |-> e, fs |-> f]

checkFile(f, loc, n) ==
    IF n.fault THEN NativeFail(NativeFileError("NOT_FOUND_ERR"), f)
    ELSE IF loc \in DOMAIN f /\ f[loc].kind = "file" THEN NativeOk(<<TRUE>>, f)
    ELSE IF n.notFoundRejects THEN NativeFail(NativeFileError("NOT_FOUND_ERR"), f)
    ELSE NativeOk(<<FALSE>>, f)

checkDir(f, loc, n) ==
    IF n.fault THEN NativeFail(NativeFileError("NOT_FOUND_ERR"), f)
    ELSE IF loc \in DOMAIN f /\ f[loc].kind = "dir" THEN NativeOk(<<TRUE>>, f)
    ELSE IF n.notFoundRejects THEN NativeFail(NativeFileError("NOT_FOUND_ERR"), f)
    ELSE NativeOk(<<FALSE>>, f)

removeRecursively(f, loc, n) ==
    IF n.fault \/ loc \notin DOMAIN f
    THEN NativeFail(NativeFileError("NOT_FOUND_ERR"), f)
    ELSE LET gone == {l \in DOMAIN f :
                         l = loc \/ IsPrefix(Full(loc) \o <<"/">>, Full(l))}
         IN  NativeOk(<<TRUE>>, [l \in (DOMAIN f \ gone) |-> f[l]])

\* writeFile(..., {replace: true})
writeFile(f, loc, data, n) ==
    IF n.fault THEN NativeFail(NativeFileError("NOT_FOUND_ERR"), f)
    ELSE IF loc \in DOMAIN f /\ f[loc].kind = "dir"
    THEN NativeFail(NativeFileError("TYPE_MISMATCH_ERR"), f)
    ELSE NativeOk(<<TRUE>>,
                  [l \in (DOMAIN f \cup {loc}) |->
                      IF l = loc THEN FileEntryOf(data) ELSE f[l]])

----------------------------------------------------------------------------
(* Results of one call of an adapter operation *)

NoDir == [absoluteBasePath |-> <<>>, target |-> <<>>]

Result(op, path, data, pathInfo, n) ==
    [op |-> op, path |-> path, data |-> data, pathInfo |-> pathInfo,
     fault |-> pathInfo.ok /\ n.fault, promise |-> "rejected", value |-> <<>>, error |-> IOError,
     cause |-> NoError, native |-> <<>>, calledBack |-> "no", cbCode |-> <<>>,
     uncaught |-> NoError, dir |-> NoDir, fileName |-> <<>>, url |-> <<>>]

Settle(r, call, out) ==
    [r EXCEPT !.promise = IF out.ok THEN "resolved" ELSE "rejected",
              !.value   = out.value,
              !.error   = out.error,
              !.native  = r.native \o <<call>>]

NoCall == [op |-> "none", path |-> <<>>, data |-> <<>>, pathInfo |-> NoPathInfo,
           fault |-> FALSE, promise |-> "resolved", value |-> <<>>,
           error |-> NoError, cause |-> NoError, native |-> <<>>,
           calledBack |-> "no", cbCode |-> <<>>, uncaught |-> NoError,
           dir |-> NoDir, fileName |-> <<>>, url |-> <<>>]

Location(pathInfo) == <<pathInfo.absoluteBasePath, pathInfo.target>>

----------------------------------------------------------------------------
(* AbstractCordovaFilesystem: each operator yields <<result, filesystem>> *)

delete(base, path, f, n) ==
    LET pathInfo == getAbsolutePathInfo(base, path)
        r        == Result("delete", path, <<>>, pathInfo, n)
    IN  IF ~pathInfo.ok THEN <<r, f>>
        ELSE LET out == removeRecursively(f, Location(pathInfo), n)
             IN  <<Settle(r, "removeRecursively", out), out.fs>>

exists(base, path, f, n) ==
    LET pathInfo == getAbsolutePathInfo(base, path)
        r        == Result("exists", path, <<>>, pathInfo, n)
    IN  IF ~pathInfo.ok THEN <<r, f>>
        ELSE LET isFile == checkFile(f, Location(pathInfo), n)
                 r1     == Settle(r, "checkFile", isFile)
             IN  IF ~isFile.ok \/ isFile.value = <<TRUE>> THEN <<r1, f>>
                 ELSE <<Settle(r1, "checkDir", checkDir(f, Location(pathInfo), n)), f>>

\* save that writes before it validates the path
save_writeFirst(base, path, data, f, n) ==
    LET pathInfo == getAbsolutePathInfo(base, path)
        r        == Result("save", path, <<data>>, pathInfo, n)
        out      == writeFile(f, <<base, path>>, data, n)
    IN  IF ~pathInfo.ok THEN <<[r EXCEPT !.native = <<"writeFile">>], out.fs>>
        ELSE <<Settle(r, "writeFile", out), out.fs>>

save(base, path, data, f, n) ==
    LET pathInfo == getAbsolutePathInfo(base, path)
        r        == Result("save", path, <<data>>, pathInfo, n)
    IN  IF ~pathInfo.ok THEN <<r, f>>
        ELSE LET out == writeFile(f, Location(pathInfo), data, n)
             IN  <<Settle(r, "writeFile", out), out.fs>>

----------------------------------------------------------------------------
(* AndroidFilesystem *)

UnsupportedFileTypeStatus == 9

\* what fileOpener.open does: <<>> is success, <<s>> a rejection with status s
OpenerOutcomes == {<<>>, <<1>>, <<8>>, <<UnsupportedFileTypeStatus>>}

androidCatch_translatesAll(e) == CantOpenFileTypeException(<<>>)

\* the catch block of AndroidFilesystem.open
androidCatch(e) ==
    IF e.status = <<UnsupportedFileTypeStatus>>
    THEN CantOpenFileTypeException(<<>>)
    ELSE e

androidOpen(base, path, o) ==
    LET pathInfo == getAbsolutePathInfo(base, path)
        r        == Result("androidOpen", path, <<>>, pathInfo, [fault |-> o # <<>>])
    IN  IF ~pathInfo.ok
        THEN [r EXCEPT !.cause = IOError, !.error = androidCatch(IOError)]
        ELSE LET r1 == [r EXCEPT !.native = <<"fileOpener.open">>,
                                 !.url = pathInfo.absoluteBasePath \o <<"/">> \o pathInfo.target]
             IN  IF o = <<>>
                 THEN [r1 EXCEPT !.promise = "resolved", !.error = NoError]
                 ELSE [r1 EXCEPT !.cause = FileOpenerError(o[1]),
                                 !.error = androidCatch(FileOpenerError(o[1]))]

----------------------------------------------------------------------------
(* IOSFilesystem *)

\* the native call of getFile/getDirectory that fails, if any
NativeFailPoints == {"none", "resolveDirectoryUrl", "getDirectory", "getFile"}

NoPreview == [when |-> "later", cb |-> "none", code |-> 0]

PreviewErrorCodes == {1, 53}

\* when the document viewer calls back: inside the executor or later
PreviewModes ==
    {NoPreview} \cup
    {[when |-> "now", cb |-> "success", code |-> 0]} \cup
    {[when |-> "now", cb |-> "failure", code |-> c] : c \in PreviewErrorCodes}

\* success callback of previewFileFromUrlOrPath: resolve()
previewSuccessCallback(r) ==
    [r EXCEPT !.calledBack = "success", !.promise = "resolved", !.error = NoError]

\* failure callback: throws.  Thrown while the executor is still running, the
\* Promise constructor turns it into a rejection; thrown later, nothing catches it.
previewFailureCallback(r, errorCode, inExecutor) ==
    IF inExecutor
    THEN [r EXCEPT !.calledBack = "failure", !.cbCode = <<errorCode>>,
                   !.promise = "rejected",
                   !.error = CantOpenFileTypeException(<<errorCode>>)]
    ELSE [r EXCEPT !.calledBack = "failure", !.cbCode = <<errorCode>>,
                   !.uncaught = CantOpenFileTypeException(<<errorCode>>)]

previewFileFromUrlOrPath(r, pv) ==
    LET r1 == [r EXCEPT !.native = r.native \o <<"previewFileFromUrlOrPath">>,
                        !.promise = "pending", !.error = NoError]
    IN  IF pv.when = "later" THEN r1
        ELSE IF pv.cb = "success" THEN previewSuccessCallback(r1)
        ELSE previewFailureCallback(r1, pv.code, TRUE)

\* getDirectory as called from getFile: the result so far, FALSE once it failed
getDirectory(base, path, r, nf) ==
    LET pathInfo == getAbsolutePathInfo(base, path)
    IN  IF ~pathInfo.ok THEN <<r, FALSE>>
        ELSE LET r1 == [r EXCEPT !.dir = [absoluteBasePath |-> pathInfo.absoluteBasePath,
                                          target |-> pathInfo.target],
                                 !.native = r.native \o <<"resolveDirectoryUrl">>]
             IN  IF nf = "resolveDirectoryUrl"
                 THEN <<[r1 EXCEPT !.error = NativeFileError("NOT_FOUND_ERR")], FALSE>>
                 ELSE IF nf = "getDirectory"
                 THEN <<[r1 EXCEPT !.native = r1.native \o <<"getDirectory">>,
                                   !.error = NativeFileError("NOT_FOUND_ERR")], FALSE>>
                 ELSE <<[r1 EXCEPT !.native = r1.native \o <<"getDirectory">>], TRUE>>

getFile(base, path, nf) ==
    LET pathInfo == getAbsolutePathInfo(base, path)
        r        == Result("iosOpen", path, <<>>, pathInfo, [fault |-> nf # "none"])
    IN  IF ~pathInfo.ok THEN <<r, FALSE>>
        ELSE LET d  == getDirectory(base, pathInfo.absoluteBasePath, r, nf)
                 r1 == [d[1] EXCEPT !.native = d[1].native \o <<"getFile">>,
                                    !.fileName = <<pathInfo.target>>]
             IN  IF ~d[2] THEN d
                 ELSE IF nf = "getFile"
                 THEN <<[r1 EXCEPT !.error = NativeFileError("NOT_FOUND_ERR")], FALSE>>
                 ELSE <<[r1 EXCEPT !.url = join(<<r1.dir.absoluteBasePath, r1.dir.target,
                                                  pathInfo.target>>)], TRUE>>

iosOpen(base, path, nf, pv) ==
    LET g == getFile(base, path, nf)
    IN  IF ~g[2] THEN g[1] ELSE previewFileFromUrlOrPath(g[1], pv)

----------------------------------------------------------------------------
(* Factory *)

OSNames == {"android", "ios", "windows"}

\* the names Platform.is answers true for
Platforms == {{n} : n \in OSNames} \cup {{}, {"cordova"}}

is(p, name) == name \in p

NoFilesystem == [kind |-> "unset", error |-> NoError]

CORDOVA_FILESYSTEM_FACTORY_fallback(p) ==
    IF is(p, "ios") THEN [kind |-> "IOSFilesystem", error |-> NoError]
    ELSE [kind |-> "AndroidFilesystem", error |-> NoError]

CORDOVA_FILESYSTEM_FACTORY(p) ==
    IF is(p, "android") THEN [kind |-> "AndroidFilesystem", error |-> NoError]
    ELSE IF is(p, "ios") THEN [kind |-> "IOSFilesystem", error |-> NoError]
    ELSE [kind |-> "none", error |-> FactoryError]

getFilesystemBasePath ==
    IF filesystem.kind = "AndroidFilesystem"
    THEN file.externalApplicationStorageDirectory
    ELSE file.dataDirectory

----------------------------------------------------------------------------
(* OpenObjectInILIASAction *)

LinkChars == {"a", "/", "|", "%"}

Links == UNION {[1..k -> LinkChars] : k \in 0..MaxLinkLen}

\* what target.build() does: <<link>>, or <<>> when the builder rejects
BuildOutcomes == {<<>>} \cup {<<l>> : l \in Links}

\* encodeURI on one character: "|" and "%" are escaped, letters and "/" kept
encodeChar(c) ==
    IF c = "|" THEN <<"%", "7", "C">>
    ELSE IF c = "%" THEN <<"%", "2", "5">>
    ELSE <<c>>

RECURSIVE encodeURI(_)
encodeURI(link) ==
    IF Len(link) = 0 THEN <<>> ELSE encodeChar(Head(link)) \o encodeURI(Tail(link))

IllegalStateError == [name |-> "IllegalStateError", status |-> <<>>, code |-> <<>>]

BuilderError == [name |-> "BuilderError", status |-> <<>>, code |-> <<>>]

NoExecution ==
    [pc |-> "idle", link |-> <<>>, promise |-> "none", error |-> NoError,
     modal |-> "none", leaveApp |-> <<>>, leaveCalls |-> 0, browser |-> <<>>]

\* this.browser.create(encodeURI(link), "_blank", options)
openBrowserIos(a, link) ==
    [a EXCEPT !.browser = @ \o <<[url |-> encodeURI(link), target |-> "_blank",
                                  location |-> "no", clearcache |-> "yes",
                                  clearsessioncache |-> "yes"]>>]

\* this.browser.create(encodeURI(link), "_system", options)
openBrowserAndroid(a, link) ==
    [a EXCEPT !.browser = @ \o <<[url |-> encodeURI(link), target |-> "_system",
                                  location |-> "yes", clearcache |-> "yes",
                                  clearsessioncache |-> "yes"]>>]

\* the closures execute hands to openUserDialog
invoke(a, leaveAction) ==
    IF leaveAction.os = "android" THEN openBrowserAndroid(a, leaveAction.link)
    ELSE openBrowserIos(a, leaveAction.link)

\* a dialog helper that runs the leave action at once, without a dialog
openUserDialog_leavesAtOnce(a, leaveAction) == invoke(a, leaveAction)

\* modal.create({.., componentProps: {leaveApp: leaveAction}}), not awaited
openUserDialog(a, leaveAction) ==
    [a EXCEPT !.modal = "creating", !.leaveApp = <<leaveAction>>]

execute(a, p, built) ==
    IF built = <<>>
    THEN [a EXCEPT !.pc = "executed", !.promise = "rejected", !.error = BuilderError]
    ELSE LET a1 == [a EXCEPT !.pc = "executed", !.link = built,
                              !.promise = "resolved"]
         IN  IF is(p, "android")
             THEN openUserDialog(a1, [os |-> "android", link |-> built[1]])
             ELSE IF is(p, "ios")
             THEN openUserDialog(a1, [os |-> "ios", link |-> built[1]])
             ELSE [a1 EXCEPT !.promise = "rejected", !.error = IllegalStateError]

\* .then((it) => it.present()) once modal.create has resolved
modalCreated(a) == [a EXCEPT !.modal = "presenting"]

----------------------------------------------------------------------------
(* State machine *)

\* the location base/path names: cut at the last "/"
LocOf(base, path) ==
    LET full == base \o <<"/">> \o path
        k    == CHOOSE j \in 1..Len(full) :
                    full[j] = "/" /\ \A i \in (j + 1)..Len(full) : full[i] # "/"
    IN  <<SubSeq(full, 1, k - 1), SubSeq(full, k + 1, Len(full))>>

\* what the device holds at start: nothing, the file "a", or the directory "a/"
InitFilesystems(base) ==
    {<<>>,
     [l \in {LocOf(base, <<"a">>)} |-> FileEntryOf("d1")],
     [l \in {LocOf(base, <<"a", "/">>)} |-> DirEntry]}

\* the call just before exists(path), when it was a save to the same path
SaveBefore(path) ==
    IF last.op = "save" /\ last.path = path
    THEN <<[data |-> last.data, promise |-> last.promise, fault |-> last.fault]>>
    ELSE <<>>

Init ==
    /\ platform \in Platforms
    /\ file = [externalApplicationStorageDirectory |-> RootDir,
               dataDirectory |-> DataDir]
    /\ filesystem = NoFilesystem
    /\ fs \in InitFilesystems(IF is(platform, "ios") THEN file.dataDirectory
                               ELSE file.externalApplicationStorageDirectory)
    /\ last = NoCall
    /\ prevSave = <<>>
    /\ action = NoExecution

Factory ==
    /\ filesystem = NoFilesystem
    /\ filesystem' = CORDOVA_FILESYSTEM_FACTORY(platform)
    /\ UNCHANGED <<platform, file, fs, last, prevSave, action>>

Bound(f) == Cardinality(DOMAIN f) <= MaxEntries

NoFault == [fault |-> FALSE, notFoundRejects |-> FALSE]

\* the native behaviours that matter to a call: none when the path is rejected
\* before the native layer is reached
ModesFor(path, modes, none) ==
    IF getAbsolutePathInfo(getFilesystemBasePath, path).ok THEN modes ELSE {none}

HasAdapter == filesystem.kind \in {"AndroidFilesystem", "IOSFilesystem"}

Delete ==
    /\ HasAdapter
    /\ \E path \in Paths : \E n \in ModesFor(path, NativeModes, NoFault) :
          \E r \in {delete(getFilesystemBasePath, path, fs, n)} :
             last' = r[1] /\ fs' = r[2]
    /\ prevSave' = <<>>
    /\ UNCHANGED <<platform, file, filesystem, action>>

Exists ==
    /\ HasAdapter
    /\ \E path \in Paths : \E n \in ModesFor(path, NativeModes, NoFault) :
          \E r \in {exists(getFilesystemBasePath, path, fs, n)} :
             last' = r[1] /\ fs' = r[2] /\ prevSave' = SaveBefore(path)
    /\ UNCHANGED <<platform, file, filesystem, action>>

Save ==
    /\ HasAdapter
    /\ \E path \in Paths, data \in Bytes :
       \E n \in ModesFor(path, NativeModes, NoFault) :
          \E r \in {save(getFilesystemBasePath, path, data, fs, n)} :
             Bound(r[2]) /\ last' = r[1] /\ fs' = r[2]
    /\ prevSave' = <<>>
    /\ UNCHANGED <<platform, file, filesystem, action>>

AndroidOpen ==
    /\ filesystem.kind = "AndroidFilesystem"
    /\ \E path \in Paths : \E o \in ModesFor(path, OpenerOutcomes, <<>>) :
          last' = androidOpen(getFilesystemBasePath, path, o)
    /\ prevSave' = <<>>
    /\ UNCHANGED <<platform, file, filesystem, fs, action>>

IOSOpen ==
    /\ filesystem.kind = "IOSFilesystem"
    /\ \E path \in Paths :
       \E nf \in ModesFor(path, NativeFailPoints, "none") :
       \E pv \in IF nf = "none" THEN ModesFor(path, PreviewModes, NoPreview)
                  ELSE {NoPreview} :
          last' = iosOpen(getFilesystemBasePath, path, nf, pv)
    /\ prevSave' = <<>>
    /\ UNCHANGED <<platform, file, filesystem, fs, action>>

PreviewPending ==
    last.op = "iosOpen" /\ last.promise = "pending" /\ last.calledBack = "no"

PreviewSuccess ==
    /\ PreviewPending
    /\ last' = previewSuccessCallback(last)
    /\ UNCHANGED <<platform, file, filesystem, fs, prevSave, action>>

PreviewFailure ==
    /\ PreviewPending
    /\ \E errorCode \in PreviewErrorCodes :
          last' = previewFailureCallback(last, errorCode, FALSE)
    /\ UNCHANGED <<platform, file, filesystem, fs, prevSave, action>>

Next ==
    \/ Factory
    \/ Delete
    \/ Exists
    \/ Save
    \/ AndroidOpen
    \/ IOSOpen
    \/ PreviewSuccess
    \/ PreviewFailure

Spec == Init /\ [][Next]_vars

----------------------------------------------------------------------------
(* State machine of the action *)

filesystemVars == <<file, filesystem, fs, last, prevSave>>

Execute ==
    /\ action.pc = "idle"
    /\ \E built \in BuildOutcomes : action' = execute(action, platform, built)
    /\ UNCHANGED <<platform, filesystemVars>>

\* the ModalController resolves modal.create
ModalCreated ==
    /\ action.modal = "creating"
    /\ action' = modalCreated(action)
    /\ UNCHANGED <<platform, filesystemVars>>

\* the ModalController rejects modal.create: nothing handles it
ModalCreateFails ==
    /\ action.modal = "creating"
    /\ action' = [action EXCEPT !.modal = "failed"]
    /\ UNCHANGED <<platform, filesystemVars>>

\* it.present() completes
ModalPresented ==
    /\ action.modal = "presenting"
    /\ action' = [action EXCEPT !.modal = "presented"]
    /\ UNCHANGED <<platform, filesystemVars>>

\* the dialog invokes the leaveApp action it was given
LeaveApp ==
    /\ action.modal \in {"presenting", "presented"}
    /\ action.leaveCalls < MaxLeave
    /\ action' = [invoke(action, action.leaveApp[1]) EXCEPT !.leaveCalls = @ + 1]
    /\ UNCHANGED <<platform, filesystemVars>>

ActionNext ==
    \/ Execute
    \/ ModalCreated
    \/ ModalCreateFails
    \/ ModalPresented
    \/ LeaveApp

ActionSpec == Init /\ [][ActionNext]_vars

----------------------------------------------------------------------------
(* Properties *)

Called == last.op # "none"

\* a non-empty path whose last segment is non-empty
ValidPath(path) == Len(path) > 0 /\ path[Len(path)] # "/"

EndsInSeparator(s) == Len(s) > 0 /\ s[Len(s)] = "/"

\* the location the last call's path names under the adapter's base directory
Resolved == LocOf(getFilesystemBasePath, last.path)

Present(loc) == loc \in DOMAIN fs

\* C1: on a valid path getAbsolutePathInfo returns, with target the last segment
\* and absoluteBasePath the base directory followed by the preceding segments
\* ("/root" and "a/b/c" give "/root/a/b" and "c").
C1_ResolvesValidPath ==
    (Called /\ ValidPath(last.path)) =>
        (last.pathInfo.ok /\ Location(last.pathInfo) = Resolved)

\* C2: getAbsolutePathInfo raises IOError exactly when the terminal segment is
\* missing or blank, never when it is a non-empty string.
C2_GuardRejectsExactlyBlankTarget ==
    Called => (last.pathInfo.ok <=> ValidPath(last.path))

\* C3: with a base directory not ending in "/", every PathTuple returned has an
\* absoluteBasePath not ending in a separator and a non-empty target.
C3_ResolvedPathInvariant ==
    (Called /\ last.pathInfo.ok) =>
        (~EndsInSeparator(last.pathInfo.absoluteBasePath) /\ Len(last.pathInfo.target) > 0)

\* C4: exists on a valid path completes without error and returns true exactly
\* when a file or directory is present at the resolved location, also when the
\* native layer reports "not found" as an error.
C4_ExistsEncodesAbsenceAsFalse ==
    (last.op = "exists" /\ ValidPath(last.path) /\ ~last.fault) =>
        (last.promise = "resolved" /\ last.value = <<Present(Resolved)>>)

C6_DeleteMissingPropagatesNativeFailure ==
    [][(Delete /\ ValidPath(last'.path)
            /\ LocOf(getFilesystemBasePath, last'.path) \notin DOMAIN fs) =>
        (/\ last'.promise = "rejected"
         /\ last'.error = NativeFileError("NOT_FOUND_ERR")
         /\ last'.native = <<"removeRecursively">>
         /\ fs' = fs)]_vars

\* C7: AndroidFilesystem.open fails with CantOpenFileTypeException when the
\* opener fails with status 9, with the original error on every other failure
\* raised inside open, and completes when the opener succeeds.
C7_AndroidOpenFailureMapping ==
    last.op = "androidOpen" =>
        /\ (last.cause.status = <<UnsupportedFileTypeStatus>> =>
                (last.promise = "rejected" /\ last.error = CantOpenFileTypeException(<<>>)))
        /\ ((last.cause # NoError /\ last.cause.status # <<UnsupportedFileTypeStatus>>) =>
                (last.promise = "rejected" /\ last.error = last.cause))
        /\ (last.cause = NoError => (last.promise = "resolved" /\ last.error = NoError))

C7_Witness ==
    /\ last.op = "androidOpen"
    /\ last.native = <<"fileOpener.open">>
    /\ last.cause = FileOpenerError(UnsupportedFileTypeStatus)
    /\ last.error = CantOpenFileTypeException(<<>>)

\* C8: once the document viewer has called back, the pending IOSFilesystem.open
\* is settled: rejected with CantOpenFileTypeException carrying the error code
\* after the failure callback, resolved after the success callback.
C8_PreviewCallbackSettlesOpen ==
    last.op = "iosOpen" =>
        /\ (last.calledBack = "failure" =>
                (last.promise = "rejected"
                 /\ last.error = CantOpenFileTypeException(last.cbCode)))
        /\ (last.calledBack = "success" => last.promise = "resolved")

\* C9: the factory returns an AndroidFilesystem on android, an IOSFilesystem on
\* ios, and raises an error, returning no adapter, on every other platform.
C9_FactorySelection ==
    filesystem # NoFilesystem =>
        /\ ("android" \in platform =>
                filesystem = [kind |-> "AndroidFilesystem", error |-> NoError])
        /\ ("ios" \in platform =>
                filesystem = [kind |-> "IOSFilesystem", error |-> NoError])
        /\ (platform \cap {"android", "ios"} = {} =>
                filesystem = [kind |-> "none", error |-> FactoryError])

C9_Witness ==
    /\ platform = {"windows"}
    /\ filesystem = [kind |-> "none", error |-> FactoryError]

\* C10: an operation that fails with the invalid-path error has issued no
\* native call and left the filesystem unchanged.
C10_ValidationBeforeNativeCalls ==
    [][last'.error = IOError => (last'.native = <<>> /\ fs' = fs)]_vars

C10_Witness ==
    /\ last.op = "save"
    /\ last.promise = "rejected"
    /\ last.error = IOError
    /\ last.native = <<>>

\* C11: in IOSFilesystem.open the directory getFile obtains from the native
\* layer is the one at the resolved absoluteBasePath of the path, the base
\* directory prepended exactly once, and the file requested in it is the
\* terminal segment.
C11_SingleResolution ==
    (last.op = "iosOpen" /\ last.dir # NoDir) =>
        /\ last.pathInfo.absoluteBasePath = Resolved[1]
        /\ join(<<last.dir.absoluteBasePath, last.dir.target>>) = Resolved[1]
        /\ (last.fileName # <<>> => last.fileName = <<Resolved[2]>>)

====
